---- MODULE Spec2Model ----
(***************************************************************************)
(* python_api/examples/demo.py: a sequential driver of the nightshade      *)
(* client.  It connects, spawns one camera, spawns a LATTICE_SIZE^3        *)
(* lattice of cubes, requests the cameras, prints them and disconnects.    *)
(*                                                                         *)
(* Coordinates are floats in the script.  Every value the script computes  *)
(* is a multiple of 0.25 and is exact in binary floating point, so the     *)
(* model counts in quarters: 1.5 is 6, 2.25 is 9, 1.0 is 4, 10.0 is 40.    *)
(*                                                                         *)
(* The library behind connect / spawn_* / request_cameras / disconnect is  *)
(* not part of the script: each call either returns (with a value drawn    *)
(* from a small set) or raises.  The script has no try/except, so a raise  *)
(* ends the run at that statement.                                         *)
(***************************************************************************)
EXTENDS Integers, Sequences, FiniteSets, TLC

\* Identifiers the server may hand back are drawn from 1..MaxId.
MaxId == 2

\* demo.py:8
LATTICE_SIZE == 4
\* demo.py:9, SPACING = 1.5, in quarters
SPACING == 6

VARIABLES
    pc,          \* the statement the script executes next
    connState,   \* the connection: "new", "open" or "closed"
    calls,       \* every library call issued so far, in order
    camera_id,   \* demo.py:6   (0: not assigned yet)
    offset,      \* demo.py:10  (0: not assigned yet)
    itx, ity, itz,       \* next index of the three range() iterators
    x, y, z,             \* loop variables, demo.py:11-13
    pos_x, pos_y, pos_z, \* demo.py:15-17
    cube_id,     \* demo.py:20  (0: not assigned yet)
    camera_ids,  \* demo.py:27
    printed      \* what demo.py:28 wrote to stdout

vars == <<pc, connState, calls, camera_id, offset, itx, ity, itz, x, y, z,
          pos_x, pos_y, pos_z, cube_id, camera_ids, printed>>

Ids == 1..MaxId

----------------------------------------------------------------------------
\* Pure parts of the script

\* Faulty variant: centring by the full width N*S/2 instead of (N-1)*S/2.
OffsetFullWidth(n, s) == (n * s) \div 2

\* Faulty variant: the division by two is forgotten.
OffsetNoHalf(n, s) == (n - 1) * s

\* demo.py:10  offset = (LATTICE_SIZE - 1) * SPACING / 2
\* (true division; in quarters (N-1)*S = 18 is even, so \div loses nothing)
Offset(n, s) == ((n - 1) * s) \div 2

\* Faulty variant: the offset is added instead of subtracted.
PosPlus(i, s, off) == i * s + off

\* demo.py:15-17  pos = index * SPACING - offset
Pos(i, s, off) == i * s - off

Digit(d) ==
    CASE d = 0 -> "0" [] d = 1 -> "1" [] d = 2 -> "2" [] d = 3 -> "3"
      [] d = 4 -> "4" [] d = 5 -> "5" [] d = 6 -> "6" [] d = 7 -> "7"
      [] d = 8 -> "8" [] d = 9 -> "9"

RECURSIVE Str(_)
\* str(n) of a non-negative int, as the f-string formats {x}
Str(n) == IF n < 10 THEN Digit(n) ELSE Str(n \div 10) \o Digit(n % 10)

\* Faulty variant: the z index is left out of the name.
CubeNameNoZ(a, b, c) == "Cube_" \o Str(a) \o "_" \o Str(b)

\* Faulty variant: the indices are formatted in the opposite order.
CubeNameReversed(a, b, c) == "Cube_" \o Str(c) \o "_" \o Str(b) \o "_" \o Str(a)

\* demo.py:24  f"Cube_{x}_{y}_{z}"
CubeName(a, b, c) == "Cube_" \o Str(a) \o "_" \o Str(b) \o "_" \o Str(c)

\* Faulty variant: the iterator stops one index early.
RangeHasNextShort(it, n) == it < n - 1

\* range(n): the iterator yields it while it < n
RangeHasNext(it, n) == it < n

\* One library call as the script issues it.
Call(op, pos, size, name, result) ==
    [op |-> op, pos |-> pos, size |-> size, name |-> name, result |-> result]

----------------------------------------------------------------------------
\* Control flow of the script

\* Faulty variant: the camera is spawned after the lattice instead of before it.
AfterCameraLast(stmt) ==
    CASE stmt = "connect"         -> "assign"
      [] stmt = "assign"          -> "for_x"
      [] stmt = "for_x"           -> "spawn_camera"
      [] stmt = "spawn_camera"    -> "request_cameras"
      [] stmt = "request_cameras" -> "print"
      [] stmt = "print"           -> "disconnect"
      [] stmt = "disconnect"      -> "done"

\* Faulty variant: the last statement is executed again instead of ending the script.
AfterDisconnectTwice(stmt) ==
    CASE stmt = "connect"         -> "spawn_camera"
      [] stmt = "spawn_camera"    -> "assign"
      [] stmt = "assign"          -> "for_x"
      [] stmt = "for_x"           -> "request_cameras"
      [] stmt = "request_cameras" -> "print"
      [] stmt = "print"           -> "disconnect"
      [] stmt = "disconnect"      -> IF connState = "open" THEN "disconnect" ELSE "done"

\* The top-level statement that follows stmt in the file; a for loop counts
\* as one statement, left when its iterator is exhausted.
After(stmt) ==
    CASE stmt = "connect"         -> "spawn_camera"     \* line 4  -> line 6
      [] stmt = "spawn_camera"    -> "assign"           \* line 6  -> line 8
      [] stmt = "assign"          -> "for_x"            \* line 10 -> line 11
      [] stmt = "for_x"           -> "request_cameras"  \* line 11 -> line 27
      [] stmt = "request_cameras" -> "print"            \* line 27 -> line 28
      [] stmt = "print"           -> "disconnect"       \* line 28 -> line 30
      [] stmt = "disconnect"      -> "done"             \* end of file

\* Faulty variant: a failed call is issued again.
UnhandledRetry(stmt) == stmt

\* Faulty variant: the connection is closed when a call raises (try / finally).
UnhandledFinally(stmt) == IF stmt = "connect" THEN "raised" ELSE "disconnect"

\* No statement of the script is inside a try block: an exception raised at
\* stmt propagates to the top level and ends the run there.
Unhandled(stmt) == "raised"

Init ==
    /\ pc = "connect"          \* conn = nightshade.Client() done, line 3
    /\ connState = "new"
    /\ calls = <<>>
    /\ camera_id = 0
    /\ offset = 0
    /\ itx = 0 /\ ity = 0 /\ itz = 0
    /\ x = 0 /\ y = 0 /\ z = 0
    /\ pos_x = 0 /\ pos_y = 0 /\ pos_z = 0
    /\ cube_id = 0
    /\ camera_ids = {}
    /\ printed = <<>>

\* demo.py:4  conn.connect("ws://localhost:9124") returns
ConnectOk ==
    /\ pc = "connect"
    /\ calls' = Append(calls, Call("connect", <<>>, 0, "ws://localhost:9124", "ok"))
    /\ connState' = "open"
    /\ pc' = After("connect")
    /\ UNCHANGED <<camera_id, offset, itx, ity, itz, x, y, z,
                   pos_x, pos_y, pos_z, cube_id, camera_ids, printed>>

\* demo.py:4  conn.connect(...) raises
ConnectRaise ==
    /\ pc = "connect"
    /\ calls' = Append(calls, Call("connect", <<>>, 0, "ws://localhost:9124", "raise"))
    /\ pc' = Unhandled("connect")
    /\ UNCHANGED <<connState, camera_id, offset, itx, ity, itz, x, y, z,
                   pos_x, pos_y, pos_z, cube_id, camera_ids, printed>>

\* demo.py:6  camera_id = nightshade.spawn_camera(conn, 0.0, 10.0, 15.0, "MainCamera")
SpawnCameraOk ==
    /\ pc = "spawn_camera"
    /\ calls' = Append(calls, Call("spawn_camera", <<0, 40, 60>>, 0, "MainCamera", "ok"))
    /\ \E id \in Ids : camera_id' = id
    /\ pc' = After("spawn_camera")
    /\ UNCHANGED <<connState, offset, itx, ity, itz, x, y, z,
                   pos_x, pos_y, pos_z, cube_id, camera_ids, printed>>

\* demo.py:6  spawn_camera raises: camera_id is not assigned
SpawnCameraRaise ==
    /\ pc = "spawn_camera"
    /\ calls' = Append(calls, Call("spawn_camera", <<0, 40, 60>>, 0, "MainCamera", "raise"))
    /\ pc' = Unhandled("spawn_camera")
    /\ UNCHANGED <<connState, camera_id, offset, itx, ity, itz, x, y, z,
                   pos_x, pos_y, pos_z, cube_id, camera_ids, printed>>

\* demo.py:8-10  the constants and offset; then range(LATTICE_SIZE) of line 11
Assign ==
    /\ pc = "assign"
    /\ offset' = Offset(LATTICE_SIZE, SPACING)
    /\ itx' = 0
    /\ pc' = After("assign")
    /\ UNCHANGED <<connState, calls, camera_id, ity, itz, x, y, z,
                   pos_x, pos_y, pos_z, cube_id, camera_ids, printed>>

\* demo.py:11  for x in range(LATTICE_SIZE)
ForX ==
    /\ pc = "for_x"
    /\ IF RangeHasNext(itx, LATTICE_SIZE)
         THEN /\ x' = itx
              /\ itx' = itx + 1
              /\ ity' = 0                 \* range(LATTICE_SIZE) of line 12
              /\ pc' = "for_y"
         ELSE /\ pc' = After("for_x")
              /\ UNCHANGED <<x, itx, ity>>
    /\ UNCHANGED <<connState, calls, camera_id, offset, itz, y, z,
                   pos_x, pos_y, pos_z, cube_id, camera_ids, printed>>

\* demo.py:12  for y in range(LATTICE_SIZE)
ForY ==
    /\ pc = "for_y"
    /\ IF RangeHasNext(ity, LATTICE_SIZE)
         THEN /\ y' = ity
              /\ ity' = ity + 1
              /\ itz' = 0                 \* range(LATTICE_SIZE) of line 13
              /\ pc' = "for_z"
         ELSE /\ pc' = "for_x"
              /\ UNCHANGED <<y, ity, itz>>
    /\ UNCHANGED <<connState, calls, camera_id, offset, itx, x, z,
                   pos_x, pos_y, pos_z, cube_id, camera_ids, printed>>

\* Faulty variant: the innermost loop counts down.
ForZDescending ==
    /\ pc = "for_z"
    /\ IF RangeHasNext(itz, LATTICE_SIZE)
         THEN /\ z' = LATTICE_SIZE - 1 - itz
              /\ itz' = itz + 1
              /\ pc' = "spawn_cube"
         ELSE /\ pc' = "for_y"
              /\ UNCHANGED <<z, itz>>
    /\ UNCHANGED <<connState, calls, camera_id, offset, itx, ity, x, y,
                   pos_x, pos_y, pos_z, cube_id, camera_ids, printed>>

\* demo.py:13  for z in range(LATTICE_SIZE)
ForZ ==
    /\ pc = "for_z"
    /\ IF RangeHasNext(itz, LATTICE_SIZE)
         THEN /\ z' = itz
              /\ itz' = itz + 1
              /\ pc' = "spawn_cube"
         ELSE /\ pc' = "for_y"
              /\ UNCHANGED <<z, itz>>
    /\ UNCHANGED <<connState, calls, camera_id, offset, itx, ity, x, y,
                   pos_x, pos_y, pos_z, cube_id, camera_ids, printed>>

\* demo.py:15-25  the loop body, spawn_cube returns
SpawnCubeOk ==
    /\ pc = "spawn_cube"
    /\ pos_x' = Pos(x, SPACING, offset)
    /\ pos_y' = Pos(y, SPACING, offset)
    /\ pos_z' = Pos(z, SPACING, offset)
    /\ calls' = Append(calls, Call("spawn_cube", <<pos_x', pos_y', pos_z'>>, 4,
                                   CubeName(x, y, z), "ok"))
    /\ \E id \in Ids : cube_id' = id
    /\ pc' = "for_z"
    /\ UNCHANGED <<connState, camera_id, offset, itx, ity, itz, x, y, z,
                   camera_ids, printed>>

\* demo.py:15-25  the loop body, spawn_cube raises: cube_id is not assigned
SpawnCubeRaise ==
    /\ pc = "spawn_cube"
    /\ pos_x' = Pos(x, SPACING, offset)
    /\ pos_y' = Pos(y, SPACING, offset)
    /\ pos_z' = Pos(z, SPACING, offset)
    /\ calls' = Append(calls, Call("spawn_cube", <<pos_x', pos_y', pos_z'>>, 4,
                                   CubeName(x, y, z), "raise"))
    /\ pc' = Unhandled("spawn_cube")
    /\ UNCHANGED <<connState, camera_id, offset, itx, ity, itz, x, y, z,
                   cube_id, camera_ids, printed>>

\* demo.py:27  camera_ids = nightshade.request_cameras(conn)
RequestCamerasOk ==
    /\ pc = "request_cameras"
    /\ calls' = Append(calls, Call("request_cameras", <<>>, 0, "", "ok"))
    /\ \E ids \in SUBSET Ids : camera_ids' = ids
    /\ pc' = After("request_cameras")
    /\ UNCHANGED <<connState, camera_id, offset, itx, ity, itz, x, y, z,
                   pos_x, pos_y, pos_z, cube_id, printed>>

\* demo.py:27  request_cameras raises
RequestCamerasRaise ==
    /\ pc = "request_cameras"
    /\ calls' = Append(calls, Call("request_cameras", <<>>, 0, "", "raise"))
    /\ pc' = Unhandled("request_cameras")
    /\ UNCHANGED <<connState, camera_id, offset, itx, ity, itz, x, y, z,
                   pos_x, pos_y, pos_z, cube_id, camera_ids, printed>>

\* demo.py:28  print(f"Found cameras: {camera_ids}")
PrintCameras ==
    /\ pc = "print"
    /\ printed' = Append(printed, <<"Found cameras: ", camera_ids>>)
    /\ pc' = After("print")
    /\ UNCHANGED <<connState, calls, camera_id, offset, itx, ity, itz, x, y, z,
                   pos_x, pos_y, pos_z, cube_id, camera_ids>>

\* demo.py:31  conn.disconnect() returns
DisconnectOk ==
    /\ pc = "disconnect"
    /\ calls' = Append(calls, Call("disconnect", <<>>, 0, "", "ok"))
    /\ connState' = "closed"
    /\ pc' = After("disconnect")
    /\ UNCHANGED <<camera_id, offset, itx, ity, itz, x, y, z,
                   pos_x, pos_y, pos_z, cube_id, camera_ids, printed>>

\* demo.py:31  conn.disconnect() raises; what the library did to the
\* connection before raising is not visible to the script
DisconnectRaise ==
    /\ pc = "disconnect"
    /\ calls' = Append(calls, Call("disconnect", <<>>, 0, "", "raise"))
    /\ \E st \in {connState, "closed"} : connState' = st
    /\ pc' = Unhandled("disconnect")
    /\ UNCHANGED <<camera_id, offset, itx, ity, itz, x, y, z,
                   pos_x, pos_y, pos_z, cube_id, camera_ids, printed>>

Next ==
    \/ ConnectOk \/ ConnectRaise
    \/ SpawnCameraOk \/ SpawnCameraRaise
    \/ Assign
    \/ ForX \/ ForY \/ ForZ
    \/ SpawnCubeOk \/ SpawnCubeRaise
    \/ RequestCamerasOk \/ RequestCamerasRaise
    \/ PrintCameras
    \/ DisconnectOk \/ DisconnectRaise

Spec == Init /\ [][Next]_vars

\* The interpreter runs the script to its end: whenever a statement can be
\* executed, one is.
FairSpec == Spec /\ WF_vars(Next)

----------------------------------------------------------------------------
\* Properties

Axis == 0..(LATTICE_SIZE - 1)
Lattice == Axis \X Axis \X Axis

CallIdx(op) == {i \in 1..Len(calls) : calls[i].op = op}
Cubes == CallIdx("spawn_cube")
IsCube(c) == c.op = "spawn_cube"
CubeSeq == SelectSeq(calls, IsCube)
NameOf(t) == CubeName(t[1], t[2], t[3])
Ended == pc \in {"done", "raised"}
AnyRaised == \E i \in 1..Len(calls) : calls[i].result = "raise"
Opened == \E i \in CallIdx("connect") : calls[i].result = "ok"

\* C1: on each axis the coordinate passed to spawn_cube for index i is
\* i*S - (N-1)*S/2 (stated doubled, so that the halving must be exact), and a
\* complete run passes it for every index triple of the lattice.
C1_LatticeCoordinates ==
    /\ \A i \in Cubes : \E t \in Lattice :
          /\ calls[i].name = NameOf(t)
          /\ \A k \in 1..3 :
                2 * calls[i].pos[k] = 2 * t[k] * SPACING - (LATTICE_SIZE - 1) * SPACING
    /\ pc = "done" => \A t \in Lattice : \E i \in Cubes : calls[i].name = NameOf(t)

C1_Witness ==
    /\ pc = "done"
    /\ \E i \in Cubes : calls[i].name = NameOf(<<3, 0, 2>>) /\ calls[i].pos = <<9, -9, 3>>

\* C2: a complete run issues exactly 64 spawn_cube calls, exactly one for each
\* index triple; no two spawn_cube calls of a run carry the same name, and two
\* calls have the same name exactly when they have the same position.
C2_SixtyFourDistinctCubes ==
    /\ pc = "done" =>
          /\ Cardinality(Cubes) = 64
          /\ \A t \in Lattice :
                Cardinality({i \in Cubes : calls[i].name = NameOf(t)}) = 1
    /\ \A i, j \in Cubes : i # j => calls[i].name # calls[j].name
    /\ \A i, j \in Cubes : (calls[i].name = calls[j].name) <=> (calls[i].pos = calls[j].pos)

C2_Witness ==
    /\ pc = "done"
    /\ Len(CubeSeq) = 64
    /\ Cardinality({calls[i].name : i \in Cubes}) = 64

RECURSIVE SumAxis(_, _)
SumAxis(k, n) ==
    IF n = 0 THEN 0
    ELSE (IF IsCube(calls[n]) THEN calls[n].pos[k] ELSE 0) + SumAxis(k, n - 1)

PosSet == {calls[i].pos : i \in Cubes}
Negate(p, k) == [p EXCEPT ![k] = 0 - p[k]]

IndexOf(name) == CHOOSE t \in Lattice : NameOf(t) = name
Mirror(t, k) == [t EXCEPT ![k] = LATTICE_SIZE - 1 - t[k]]

\* C3: the coordinate of index i is the negation of the coordinate of index
\* N-1-i on each axis; after a complete run the set of cube positions is closed
\* under negating any axis and the positions sum to (0, 0, 0).
C3_SymmetricAboutOrigin ==
    /\ \A i \in Cubes : \A k \in 1..3 :
          LET m == NameOf(Mirror(IndexOf(calls[i].name), k))
          IN  \A j \in Cubes :
                 calls[j].name = m => calls[j].pos = Negate(calls[i].pos, k)
    /\ pc = "done" =>
          /\ \A p \in PosSet : \A k \in 1..3 : Negate(p, k) \in PosSet
          /\ \A k \in 1..3 : SumAxis(k, Len(calls)) = 0

C3_Witness ==
    /\ pc = "done"
    /\ <<-9, 3, 9>> \in PosSet /\ <<9, 3, 9>> \in PosSet
    /\ Cardinality(PosSet) = 64

\* C4: with LATTICE_SIZE = 4 and SPACING = 1.5 the offset is 2.25 (9 quarters),
\* index 0 maps to -2.25 and index 3 to 2.25, and every coordinate passed to
\* spawn_cube is one of -2.25, -0.75, 0.75, 2.25 (-9, -3, 3, 9 quarters).
C4_CoordinateValues ==
    /\ pc \notin {"connect", "spawn_camera", "assign", "raised"} => offset = 9
    /\ Cubes # {} => offset = 9
    /\ \A i \in Cubes : \A k \in 1..3 :
          /\ calls[i].pos[k] \in {-9, -3, 3, 9}
          /\ IndexOf(calls[i].name)[k] = 0 => calls[i].pos[k] = -9
          /\ IndexOf(calls[i].name)[k] = 3 => calls[i].pos[k] = 9

C4_Witness ==
    /\ offset = 9
    /\ \E i, j \in Cubes :
          /\ calls[i].name = "Cube_0_0_0" /\ calls[i].pos = <<-9, -9, -9>>
          /\ calls[j].name = "Cube_3_3_3" /\ calls[j].pos = <<9, 9, 9>>

\* C5: calls are issued in program order: connect first; the single
\* spawn_camera before the first spawn_cube; request_cameras only after all 64
\* spawn_cube calls; disconnect last; no spawn_camera, spawn_cube or
\* request_cameras before connect or after disconnect.
C5_ProgramOrder ==
    /\ calls # <<>> => calls[1].op = "connect"
    /\ \A i \in CallIdx("connect") : i = 1
    /\ Cardinality(CallIdx("spawn_camera")) <= 1
    /\ Cubes # {} => Cardinality(CallIdx("spawn_camera")) = 1
    /\ \A i \in CallIdx("spawn_camera") : \A j \in Cubes : i < j
    /\ \A r \in CallIdx("request_cameras") :
          /\ Cardinality({i \in Cubes : i < r}) = 64
          /\ \A i \in Cubes : i < r
    /\ \A d \in CallIdx("disconnect") : d = Len(calls)
    /\ \A i \in CallIdx("spawn_camera") \cup Cubes \cup CallIdx("request_cameras") :
          /\ \E c \in CallIdx("connect") : c < i
          /\ \A d \in CallIdx("disconnect") : i < d

C5_Witness ==
    /\ pc = "done"
    /\ calls[1].op = "connect"
    /\ calls[2].op = "spawn_camera"
    /\ calls[67].op = "request_cameras"
    /\ calls[Len(calls)].op = "disconnect"

\* C6: connect is called at most once, disconnect at most once and never
\* before connect, and connect is never called after disconnect; a closed
\* connection stays closed.
C6_OneConnection ==
    /\ Cardinality(CallIdx("connect")) <= 1
    /\ Cardinality(CallIdx("disconnect")) <= 1
    /\ \A d \in CallIdx("disconnect") : \E c \in CallIdx("connect") : c < d
    /\ \A d \in CallIdx("disconnect") : \A c \in CallIdx("connect") : c < d
    /\ connState = "closed" => calls[Len(calls)].op = "disconnect"
    /\ connState = "open" => CallIdx("connect") # {}

C6_Witness ==
    /\ connState = "closed"
    /\ Cardinality(CallIdx("connect")) = 1
    /\ Cardinality(CallIdx("disconnect")) = 1

DisconnectCalled == CallIdx("disconnect") # {}
WorkRaised ==
    \E i \in 1..Len(calls) :
       /\ calls[i].op \in {"spawn_camera", "spawn_cube", "request_cameras"}
       /\ calls[i].result = "raise"

\* C7 as stated: every run that opened the connection, also one on which
\* spawn_camera, a spawn_cube or request_cameras raises, has called disconnect
\* when the script ends.
C7_ReleasedOnEveryPath ==
    (Ended /\ Opened) => DisconnectCalled

\* C7 amended: a run that opened the connection has called disconnect when the
\* script ends exactly if spawn_camera, every spawn_cube and request_cameras
\* returned; a run on which one of them raises ends without calling disconnect,
\* the connection still open.
C7_ReleasedOnlyWithoutFailure ==
    (Ended /\ Opened) =>
       /\ DisconnectCalled <=> ~WorkRaised
       /\ WorkRaised => connState = "open"

C7_Witness ==
    /\ pc = "raised"
    /\ Opened
    /\ calls[Len(calls)].op = "spawn_cube"
    /\ ~DisconnectCalled
    /\ connState = "open"

Request(c) == <<c.op, c.pos, c.size, c.name>>

GoodEnd ==
    /\ pc = "done"
    /\ connState = "closed"
    /\ Len(calls) = 68
    /\ calls[1].op = "connect" /\ calls[68].op = "disconnect"
    /\ Cardinality(CallIdx("spawn_camera")) = 1
    /\ Cardinality(Cubes) = 64
    /\ Cardinality(CallIdx("request_cameras")) = 1

\* C9: a run on which no call raises terminates: it reaches the final state,
\* disconnected, with exactly 66 calls between connect and disconnect
\* (1 spawn_camera, 64 spawn_cube, 1 request_cameras).
C9_TerminatesWithoutFailure == <>(AnyRaised \/ GoodEnd)

C9_Witness == GoodEnd /\ ~AnyRaised /\ printed # <<>>

LexLess(s, t) ==
    \/ s[1] < t[1]
    \/ s[1] = t[1] /\ s[2] < t[2]
    \/ s[1] = t[1] /\ s[2] = t[2] /\ s[3] < t[3]

\* C10: cubes are spawned in lexicographic order of (x, y, z), z fastest: each
\* spawn_cube is for a greater triple than the one before it (hence than all
\* before it), and the k-th call (k from 0) is for
\* (k div 16, (k div 4) mod 4, k mod 4); the first is Cube_0_0_0 and the last
\* Cube_3_3_3.
C10_LexicographicOrder ==
    /\ \A n \in 1..(Len(CubeSeq) - 1) :
          LexLess(IndexOf(CubeSeq[n].name), IndexOf(CubeSeq[n + 1].name))
    /\ \A n \in 1..Len(CubeSeq) :
          LET k == n - 1
          IN  CubeSeq[n].name = NameOf(<<k \div 16, (k \div 4) % 4, k % 4>>)
    /\ CubeSeq # <<>> => CubeSeq[1].name = "Cube_0_0_0"
    /\ Len(CubeSeq) > 1 => CubeSeq[2].name = "Cube_0_0_1"
    /\ pc = "done" => CubeSeq[Len(CubeSeq)].name = "Cube_3_3_3"

C10_Witness ==
    /\ Len(CubeSeq) = 64
    /\ CubeSeq[7].name = "Cube_0_1_2"
    /\ CubeSeq[64].name = "Cube_3_3_3"

====
